---- MODULE Spec2Model ----
(***************************************************************************)
(* Stripe payment monitor (src/index.js): the POST /webhook pipeline       *)
(* (verification, dispatch on event.type, the Gmail alert, the Airtable    *)
(* record), the POST /test handler, GET /logs and the in-memory log        *)
(* buffer.                                                                 *)
(*                                                                         *)
(* Node runs every handler to its next real suspension point without       *)
(* interleaving, so one action is one run of a handler between two         *)
(* suspension points: transporter.sendMail and base(...).create are the    *)
(* only calls that suspend on the outside world.  Timestamps (new Date())  *)
(* are not modelled: no decision of the code reads them.  The mail         *)
(* transporter and the Airtable base are taken as constructed (lines       *)
(* 16-26): what their calls answer is the environment's choice.            *)
(***************************************************************************)
EXTENDS Integers, Sequences, FiniteSets, TLC

\* ------------------------------------------------------------------ bounds
\* Requests served in one behaviour (all of them may be in flight at once).
NumReq == 2
\* Deliveries rejected before a warm start (each left one entry in the buffer).
WarmLogs == 96

\* ------------------------------------------------------- program constants
MaxLogs == 100

\* ------------------------------------------------------------- the inputs
FailureTypes ==
  {"charge.failed", "payment_intent.payment_failed",
   "invoice.payment_failed", "payment_method.attach_failed"}

OtherTypes == {"customer.created"}

OptionalFields ==
  {"customer_email", "customer", "failure_code", "failure_message",
   "description", "source"}

\* A sample value of each field of a Stripe object (source is an object).
SampleValue(f) ==
  CASE f = "customer_email"  -> "jo@example.com"
    [] f = "customer"        -> "cus_9"
    [] f = "failure_code"    -> "card_declined"
    [] f = "failure_message" -> "Your card was declined."
    [] f = "description"     -> "Order 17"
    [] f = "source"          -> [type |-> "card"]

\* A raw payload (event.data.object) is a record whose domain is the set of
\* fields it carries: an absent field reads as undefined.
MakePayload(fs, id, amount, currency) ==
  [f \in fs |->
     CASE f = "id"       -> id
       [] f = "amount"   -> amount
       [] f = "currency" -> currency
       [] OTHER          -> SampleValue(f)]

AllFields == {"id", "amount", "currency"} \cup OptionalFields

FullPayload == MakePayload(AllFields, "ch_1", 4999, "usd")
NoCurrencyPayload == MakePayload({"id", "amount"}, "ch_2", 4999, "usd")

\* The payloads of the concurrent pipeline.
CorePayloads == {FullPayload, NoCurrencyPayload}

\* Every shape of payload: each field but id present or absent.
Amounts == {0, 5, 4999}
Currencies == {"usd", "EUR"}
AllPayloads ==
  { MakePayload({"id"} \cup fs, "ch_1", a, c) :
      fs \in SUBSET (AllFields \ {"id"}), a \in Amounts, c \in Currencies }

\* data.object of the envelope is missing (or null).
NoObject == [none |-> TRUE]

MalformedBody == [kind |-> "malformed"]
NullBody == [kind |-> "null"]
EventBody(t, o) == [kind |-> "event", type |-> t, object |-> o]

WebhookInput(sigOk, body) == [route |-> "webhook", sigOk |-> sigOk, body |-> body]
TestInput == [route |-> "test"]
LogsInput == [route |-> "logs"]
NoInput == [route |-> "none"]

\* What the sinks' transports answer.
MailErrors == {"Invalid login"}
CreateErrors == {"NOT_FOUND"}
RecordIds == {"rec1"}

\* ------------------------------------------------------ the log buffer
Entry(message, level) == [level |-> level, message |-> message]
Info(message) == Entry(message, "info")
Err(message) == Entry(message, "error")

\* Mutant of Log: the length is tested, and the oldest entry dropped, before
\* the push.
LogShiftFirst(buf, entry) ==
  Append(IF Len(buf) > MaxLogs THEN Tail(buf) ELSE buf, entry)

\* Mutant of Log: an append made while the buffer already holds entries goes
\* in front of the newest one instead of after it.
LogOutOfOrder(buf, entry) ==
  LET pushed == IF buf = <<>> THEN <<entry>>
                ELSE SubSeq(buf, 1, Len(buf) - 1) \o <<entry, buf[Len(buf)]>>
  IN IF Len(pushed) > MaxLogs THEN Tail(pushed) ELSE pushed

\* log(): push, then shift when the buffer holds more than MaxLogs.
Log(buf, entry) ==
  LET pushed == Append(buf, entry)
  IN IF Len(pushed) > MaxLogs THEN Tail(pushed) ELSE pushed

\* Several log() calls in a row, in order.
RECURSIVE LogAll(_, _)
LogAll(buf, entries) ==
  IF entries = <<>> THEN buf
  ELSE LogAll(Log(buf, Head(entries)), Tail(entries))

\* ------------------------------------------- deriving what the sinks send
Ok(v) == [ok |-> TRUE, value |-> v]
Throw(message) == [ok |-> FALSE, error |-> message]

\* TypeError messages of the runtime.
UpperError == "Cannot read properties of undefined (reading 'toUpperCase')"
NoObjectError == "Cannot read properties of undefined (reading 'id')"
NullEventError == "Cannot read properties of null (reading 'type')"
JsonError == "Unexpected token in JSON"
SignatureError == "No signatures found matching the expected signature for payload"

\* A JavaScript number with two decimals, and NaN.
NaN == [nan |-> TRUE]
Decimal(units, hundredths) == [units |-> units, hundredths |-> hundredths]

\* paymentData.amount / 100 (undefined / 100 is NaN).
Div100(p) ==
  IF "amount" \in DOMAIN p
  THEN Decimal(p.amount \div 100, p.amount % 100)
  ELSE NaN

\* Number.prototype.toFixed(2).
ToFixed2(x) ==
  IF x = NaN THEN "NaN"
  ELSE ToString(x.units) \o "."
       \o (IF x.hundredths < 10 THEN "0" ELSE "") \o ToString(x.hundredths)

\* String.prototype.toUpperCase on the currency codes of the inputs.
ToUpperCase(s) ==
  CASE s = "usd" -> "USD"
    [] s = "eur" -> "EUR"
    [] OTHER     -> s

\* paymentData.f || 'N/A' for a string field: undefined and "" are falsy.
OrNA(p, f) == IF f \in DOMAIN p /\ p[f] # "" THEN p[f] ELSE "N/A"

\* paymentData.source?.type || 'N/A'.
SourceOrNA(p) ==
  IF "source" \in DOMAIN p /\ "type" \in DOMAIN p.source /\ p.source.type # ""
  THEN p.source.type
  ELSE "N/A"

\* `${paymentData.id}` in a template.
IdText(p) == IF "id" \in DOMAIN p THEN p.id ELSE "undefined"

\* The mailOptions of sendFailedPaymentAlert: building them throws when
\* paymentData.currency is undefined (.toUpperCase() of undefined).
MailOptions(p) ==
  IF "currency" \notin DOMAIN p THEN Throw(UpperError)
  ELSE Ok([subject |-> "Payment Failed: $" \o ToFixed2(Div100(p)),
           html |-> [amount         |-> "$" \o ToFixed2(Div100(p)),
                     currency       |-> ToUpperCase(p.currency),
                     customer       |-> OrNA(p, "customer_email"),
                     customerId     |-> OrNA(p, "customer"),
                     paymentId      |-> IdText(p),
                     failureCode    |-> OrNA(p, "failure_code"),
                     failureMessage |-> OrNA(p, "failure_message"),
                     description    |-> OrNA(p, "description")]])

\* Mutant of RecordAmount: the minor-unit integer is stored as it came.
RecordAmountRaw(p) ==
  IF "amount" \in DOMAIN p THEN Decimal(p.amount, 0) ELSE NaN

\* The amount the record carries.
RecordAmount(p) == Div100(p)

\* Mutant of RecordFields: an absent currency reads "N/A" in the record, so
\* that the record is built where the mail was not.
RecordFieldsLenient(p) ==
  Ok([PaymentID      |-> IdText(p),
      Amount         |-> RecordAmount(p),
      Currency       |-> IF "currency" \in DOMAIN p
                         THEN ToUpperCase(p.currency) ELSE "N/A",
      CustomerEmail  |-> OrNA(p, "customer_email"),
      CustomerID     |-> OrNA(p, "customer"),
      FailureCode    |-> OrNA(p, "failure_code"),
      FailureMessage |-> OrNA(p, "failure_message"),
      Description    |-> OrNA(p, "description"),
      Status         |-> "Failed",
      Source         |-> SourceOrNA(p)])

\* The fields of updateAirtableFailedPayment's record: building them throws
\* when paymentData.currency is undefined.
RecordFields(p) ==
  IF "currency" \notin DOMAIN p THEN Throw(UpperError)
  ELSE Ok([PaymentID      |-> IdText(p),
           Amount         |-> RecordAmount(p),
           Currency       |-> ToUpperCase(p.currency),
           CustomerEmail  |-> OrNA(p, "customer_email"),
           CustomerID     |-> OrNA(p, "customer"),
           FailureCode    |-> OrNA(p, "failure_code"),
           FailureMessage |-> OrNA(p, "failure_message"),
           Description    |-> OrNA(p, "description"),
           Status         |-> "Failed",
           Source         |-> SourceOrNA(p)])

\* ---------------------------------------------------------------- state
VARIABLES
  secret,     \* process.env.STRIPE_WEBHOOK_SECRET is set
  listening,  \* the app.listen callback has run
  logs,       \* the logs array
  pc,         \* per request: idle, sendMail, create, testMail, testCreate, done
              \* (or hung, where a call is taken never to return)
  input,      \* per request: what was posted
  response,   \* per request: the response sent, status 0 while none is
  calls,      \* per request: the sink calls made so far, in order
  reqLog,     \* per request: the entries it passed to log(), in order
  mail,       \* per request: the mailOptions handed to sendMail
  fields      \* per request: the fields handed to create

vars == <<secret, listening, logs, pc, input, response, calls, reqLog, mail, fields>>

Requests == 1..NumReq

NoValue == [none |-> TRUE]
NoResponse == [status |-> 0]

\* res.json({ received: true })
Received == [status |-> 200, json |-> [received |-> TRUE]]
\* res.status(400).send(`Webhook error: ${error.message}`)
WebhookError(message) == [status |-> 400, text |-> "Webhook error: " \o message]
\* res.json({ success: true, ... })
TestPassed(recordId) ==
  [status |-> 200,
   json |-> [success |-> TRUE, message |-> "Test completed successfully",
             gmail_test |-> "Email sent",
             airtable_test |-> "Record created: " \o recordId]]
\* res.status(500).json({ success: false, error: error.message })
TestFailed(message) ==
  [status |-> 500, json |-> [success |-> FALSE, error |-> message]]

\* The log() calls of app.listen's callback and initialize().
StartupEntries ==
  <<Info("Stripe Payment Monitor running on port 3000"),
    Info("Failed Payments table structure ready"),
    Info("Stripe Payment Monitor initialized successfully")>>

\* The last n elements of a sequence (Array.prototype.slice(-n)).
SliceLast(seq, n) ==
  IF Len(seq) > n THEN SubSeq(seq, Len(seq) - n + 1, Len(seq)) ELSE seq

\* The buffer after start-up and n deliveries rejected for their body, each of
\* which logs one entry: what log() keeps of them.
History(n) ==
  SliceLast(StartupEntries \o [i \in 1..n |-> Err("Webhook error: " \o JsonError)],
            MaxLogs)

\* The state with the buffer at buf, before any request.
Boot(l, buf) ==
  /\ secret \in BOOLEAN
  /\ listening = l
  /\ logs = buf
  /\ pc = [r \in Requests |-> "idle"]
  /\ input = [r \in Requests |-> NoInput]
  /\ response = [r \in Requests |-> NoResponse]
  /\ calls = [r \in Requests |-> <<>>]
  /\ reqLog = [r \in Requests |-> <<>>]
  /\ mail = [r \in Requests |-> NoValue]
  /\ fields = [r \in Requests |-> NoValue]

\* The process as loaded, or as it stands after earlier traffic.
Init == Boot(FALSE, <<>>) \/ Boot(TRUE, History(WarmLogs))

\* app.listen(port, () => { log(...); initialize(); })
Listen ==
  /\ ~listening
  /\ listening' = TRUE
  /\ logs' = LogAll(logs, StartupEntries)
  /\ UNCHANGED <<secret, pc, input, response, calls, reqLog, mail, fields>>

\* One run of request r's handler up to its next suspension point or its
\* response: the entries it logs, the sink calls it makes, where it stops.
Step(r, to, entries, made, resp, m, f) ==
  /\ pc' = [pc EXCEPT ![r] = to]
  /\ logs' = LogAll(logs, entries)
  /\ reqLog' = [reqLog EXCEPT ![r] = @ \o entries]
  /\ calls' = [calls EXCEPT ![r] = @ \o made]
  /\ response' = [response EXCEPT ![r] = resp]
  /\ mail' = [mail EXCEPT ![r] = m]
  /\ fields' = [fields EXCEPT ![r] = f]
  /\ UNCHANGED <<secret, listening>>

\* Requests are taken in the order of their numbers.
Arrives(r) ==
  /\ listening
  /\ pc[r] = "idle"
  /\ \A q \in Requests : q < r => pc[q] # "idle"

\* JSON.parse(req.body.toString())
Parse(body) == IF body.kind = "malformed" THEN Throw(JsonError) ELSE Ok(body)

\* Mutant of Verify: the signature is never checked.
VerifyUnchecked(in) == Parse(in.body)

\* Mutant of Verify: the signature is checked whether or not a secret is
\* configured.
VerifyAlways(in) ==
  IF in.sigOk THEN Parse(in.body) ELSE Throw(SignatureError)

\* The verification of app.post('/webhook'): constructEvent when the secret
\* is set (it throws on a signature that does not match), JSON.parse alone
\* otherwise.
Verify(in) ==
  IF secret
  THEN IF in.sigOk THEN Parse(in.body) ELSE Throw(SignatureError)
  ELSE Parse(in.body)

\* Mutant of IsFailureEvent: the last case of the switch is missing.
IsFailureEventThree(type) ==
  CASE type = "charge.failed"                 -> TRUE
    [] type = "payment_intent.payment_failed" -> TRUE
    [] type = "invoice.payment_failed"        -> TRUE
    [] OTHER                                  -> FALSE

\* The switch of app.post('/webhook').
IsFailureEvent(type) ==
  CASE type = "charge.failed"                 -> TRUE
    [] type = "payment_intent.payment_failed" -> TRUE
    [] type = "invoice.payment_failed"        -> TRUE
    [] type = "payment_method.attach_failed"  -> TRUE
    [] OTHER                                  -> FALSE

\* What the catch blocks of processFailedPayment and of the webhook handler
\* log for an error thrown inside processFailedPayment.
ProcessingFailed(message) ==
  <<Err("Error processing failed payment: " \o message),
    Err("Webhook error: " \o message)>>

\* Mutant of RecordSink: the record sink is passed over and the event is
\* acknowledged once the email sink has returned.
RecordSinkSkipped(r, p, entries, made) ==
  Step(r, "done",
       entries \o <<Info("Successfully processed failed payment: " \o IdText(p))>>,
       made, Received, mail[r], NoValue)

\* updateAirtableFailedPayment up to its create call, entered with the
\* entries and calls the handler has made in this run.
RecordSink(r, p, entries, made) ==
  LET f == RecordFields(p) IN
  IF f.ok
  THEN Step(r, "create", entries, made \o <<"record:enter", "create:call">>,
            NoResponse, mail[r], f.value)
  ELSE Step(r, "done",
            entries \o <<Err("Error creating Airtable record: " \o f.error)>>
                    \o ProcessingFailed(f.error),
            made \o <<"record:enter", "record:throw">>,
            WebhookError(f.error), mail[r], NoValue)

\* processFailedPayment up to its first suspension point.
ProcessFailedPayment(r, event, entries) ==
  IF event.object = NoObject
  THEN Step(r, "done", entries \o ProcessingFailed(NoObjectError), <<>>,
            WebhookError(NoObjectError), NoValue, NoValue)
  ELSE LET p == event.object
           started == entries \o
             <<Info("Processing failed payment: " \o IdText(p)
                    \o ", Amount: $" \o ToFixed2(Div100(p)))>>
           m == MailOptions(p)
       IN IF m.ok
          THEN Step(r, "sendMail", started, <<"email:enter", "sendMail:call">>,
                    NoResponse, m.value, NoValue)
          ELSE RecordSink(r, p,
                 started \o <<Err("Error sending Gmail alert: " \o m.error)>>,
                 <<"email:enter", "email:return">>)

\* Mutant of UnhandledEntries: the default branch logs nothing.
UnhandledEntriesSilent(type) == <<>>

\* The default branch of the switch.
UnhandledEntries(type) == <<Info("Unhandled event type: " \o type)>>

\* Mutant of Dispatch: an event whose payment id was delivered before is
\* acknowledged without being processed again.
DispatchDeduped(r, event, entries) ==
  IF /\ IsFailureEvent(event.type)
     /\ event.object # NoObject
     /\ \E q \in Requests \ {r} :
          /\ input[q].route = "webhook"
          /\ input[q].body.kind = "event"
          /\ input[q].body.object # NoObject
          /\ input[q].body.object.id = event.object.id
  THEN Step(r, "done", entries, <<>>, Received, NoValue, NoValue)
  ELSE IF IsFailureEvent(event.type)
  THEN ProcessFailedPayment(r, event, entries)
  ELSE Step(r, "done", entries \o UnhandledEntries(event.type), <<>>,
            Received, NoValue, NoValue)

\* The switch of app.post('/webhook') and, for an event that is not handled,
\* the response after it.
Dispatch(r, event, entries) ==
  IF IsFailureEvent(event.type)
  THEN ProcessFailedPayment(r, event, entries)
  ELSE Step(r, "done", entries \o UnhandledEntries(event.type), <<>>,
            Received, NoValue, NoValue)

\* Mutant of Rejected: the catch block answers without logging the error.
RejectedUnlogged(r, message) ==
  Step(r, "done", <<>>, <<>>, WebhookError(message), NoValue, NoValue)

\* What the catch block of app.post('/webhook') does with an error thrown
\* before the switch.
Rejected(r, message) ==
  Step(r, "done", <<Err("Webhook error: " \o message)>>, <<>>,
       WebhookError(message), NoValue, NoValue)

\* app.post('/webhook') from the request to its first suspension point.
WebhookReceive(r, in) ==
  /\ Arrives(r)
  /\ input' = [input EXCEPT ![r] = in]
  /\ LET v == Verify(in) IN
     IF ~v.ok THEN Rejected(r, v.error)
     ELSE IF v.value.kind = "null" THEN Rejected(r, NullEventError)
     ELSE Dispatch(r, v.value,
                   <<Info("Received Stripe webhook: " \o v.value.type)>>)

\* Mutant of MailFailed: the error of sendMail is thrown on instead of being
\* swallowed, and ends the request.
MailFailedRethrown(r, message) ==
  /\ pc[r] = "sendMail"
  /\ UNCHANGED input
  /\ Step(r, "done",
          <<Err("Error sending Gmail alert: " \o message)>>
            \o ProcessingFailed(message),
          <<"sendMail:error", "email:throw">>,
          WebhookError(message), mail[r], NoValue)

\* transporter.sendMail settles inside sendFailedPaymentAlert; the handler
\* runs on into updateAirtableFailedPayment.
MailSent(r) ==
  /\ pc[r] = "sendMail"
  /\ UNCHANGED input
  /\ RecordSink(r, input[r].body.object,
       <<Info("Failed payment alert sent via Gmail for payment "
              \o IdText(input[r].body.object))>>,
       <<"sendMail:ok", "email:return">>)

MailFailed(r, message) ==
  /\ pc[r] = "sendMail"
  /\ UNCHANGED input
  /\ RecordSink(r, input[r].body.object,
       <<Err("Error sending Gmail alert: " \o message)>>,
       <<"sendMail:error", "email:return">>)

\* base('Failed Payments').create settles inside updateAirtableFailedPayment.
RecordCreated(r, id) ==
  /\ pc[r] = "create"
  /\ UNCHANGED input
  /\ Step(r, "done",
          <<Info("Failed payment record created in Airtable: " \o id),
            Info("Successfully processed failed payment: "
                 \o IdText(input[r].body.object))>>,
          <<"create:ok", "record:return">>, Received, mail[r], fields[r])

\* Mutant of CreateFailed: the create call is made again after an error.
CreateFailedRetried(r, message) ==
  /\ pc[r] = "create"
  /\ UNCHANGED input
  /\ Step(r, "create",
          <<Err("Error creating Airtable record: " \o message)>>,
          <<"create:error", "create:call">>, NoResponse, mail[r], fields[r])

\* Mutant of CreateFailed: the error of create is swallowed like the email's.
CreateFailedSwallowed(r, message) ==
  /\ pc[r] = "create"
  /\ UNCHANGED input
  /\ Step(r, "done",
          <<Err("Error creating Airtable record: " \o message),
            Info("Successfully processed failed payment: "
                 \o IdText(input[r].body.object))>>,
          <<"create:error", "record:return">>, Received, mail[r], fields[r])

\* Mutant of CreateFailed: the error of create is logged and the request is
\* left without a response.
CreateFailedUnanswered(r, message) ==
  /\ pc[r] = "create"
  /\ UNCHANGED input
  /\ Step(r, "done",
          <<Err("Error creating Airtable record: " \o message)>>,
          <<"create:error", "record:throw">>, NoResponse, mail[r], fields[r])

CreateFailed(r, message) ==
  /\ pc[r] = "create"
  /\ UNCHANGED input
  /\ Step(r, "done",
          <<Err("Error creating Airtable record: " \o message)>>
            \o ProcessingFailed(message),
          <<"create:error", "record:throw">>,
          WebhookError(message), mail[r], fields[r])

\* The mail and the record of app.post('/test').
TestMail ==
  [subject |-> "Test: Stripe Payment Monitor is Working",
   html |-> "<p>This is a test email to confirm your Stripe Payment Monitor is working correctly!</p>"]

TestFields ==
  [PaymentID      |-> "TEST_now",
   Amount         |-> Decimal(99, 99),
   Currency       |-> "USD",
   CustomerEmail  |-> "test@example.com",
   FailureCode    |-> "TEST",
   FailureMessage |-> "This is a test record",
   Status         |-> "Test"]

\* app.post('/test') from the request to its sendMail call.
TestReceive(r) ==
  /\ Arrives(r)
  /\ input' = [input EXCEPT ![r] = TestInput]
  /\ Step(r, "testMail", <<Info("Manual test run initiated")>>,
          <<"sendMail:call">>, NoResponse, TestMail, NoValue)

\* Mutant of TestMailSent: the run ends once its mail is sent, with no record
\* created.
TestMailSentOnly(r) ==
  /\ pc[r] = "testMail"
  /\ UNCHANGED input
  /\ Step(r, "done", <<Info("Manual test completed successfully")>>,
          <<"sendMail:ok">>, TestPassed("none"), mail[r], NoValue)

\* The test mail is sent: the handler goes on to its create call.
TestMailSent(r) ==
  /\ pc[r] = "testMail"
  /\ UNCHANGED input
  /\ Step(r, "testCreate", <<>>, <<"sendMail:ok", "create:call">>,
          NoResponse, mail[r], TestFields)

\* The catch block of app.post('/test').
TestThrows(r, made, message) ==
  /\ UNCHANGED input
  /\ Step(r, "done", <<Err("Manual test failed: " \o message)>>, made,
          TestFailed(message), mail[r], fields[r])

\* Mutant of TestMailFailed: the failure of the test mail is passed over, as
\* the webhook's is, and the run goes on to its create call.
TestMailFailedSwallowed(r, message) ==
  /\ pc[r] = "testMail"
  /\ UNCHANGED input
  /\ Step(r, "testCreate", <<>>, <<"sendMail:error", "create:call">>,
          NoResponse, mail[r], TestFields)

TestMailFailed(r, message) ==
  /\ pc[r] = "testMail"
  /\ TestThrows(r, <<"sendMail:error">>, message)

TestRecordCreated(r, id) ==
  /\ pc[r] = "testCreate"
  /\ UNCHANGED input
  /\ Step(r, "done", <<Info("Manual test completed successfully")>>,
          <<"create:ok">>, TestPassed(id), mail[r], fields[r])

TestCreateFailed(r, message) ==
  /\ pc[r] = "testCreate"
  /\ TestThrows(r, <<"create:error">>, message)

\* Mutant of LogsReply: the oldest 50 entries are returned, not the newest.
LogsReplyOldest(buf) ==
  [status |-> 200,
   json |-> [logs |-> IF Len(buf) > 50 THEN SubSeq(buf, 1, 50) ELSE buf,
             total |-> Len(buf)]]

\* res.json({ logs: logs.slice(-50), total: logs.length })
LogsReply(buf) ==
  [status |-> 200, json |-> [logs |-> SliceLast(buf, 50), total |-> Len(buf)]]

\* app.get('/logs'): answered in one run, from the buffer as it stands.
GetLogs(r) ==
  /\ Arrives(r)
  /\ input' = [input EXCEPT ![r] = LogsInput]
  /\ Step(r, "done", <<>>, <<>>, LogsReply(logs), NoValue, NoValue)

\* ----------------------------------------------------- the specifications
\* A delivery, one of ins, reaches POST /webhook as request r.
Deliver(r, ins) == Arrives(r) /\ \E in \in ins : WebhookReceive(r, in)

\* The deliveries of the concurrent pipeline: a body that is not JSON, the
\* JSON null, an event that is no payment failure, and a charge.failed event
\* with each kind of payload and with none.
CoreBodies ==
  {MalformedBody, NullBody}
    \cup { EventBody(t, FullPayload) : t \in OtherTypes }
    \cup { EventBody("charge.failed", o) : o \in CorePayloads \cup {NoObject} }

\* Each of them with a signature that verifies, two of them also with one
\* that does not.
BadlySigned == {MalformedBody, EventBody("charge.failed", FullPayload)}

CoreInputs ==
  { WebhookInput(TRUE, b) : b \in CoreBodies }
    \cup { WebhookInput(FALSE, b) : b \in BadlySigned }

\* Mutant of Settles: the transports answer one call at a time, so that no
\* call returns while another request's call hangs.
SettlesOneAtATime(r) ==
  /\ \A q \in Requests \ {r} : pc[q] # "hung"
  /\ \/ MailSent(r)
     \/ \E m \in MailErrors : MailFailed(r, m)
     \/ \E id \in RecordIds : RecordCreated(r, id)
     \/ \E m \in CreateErrors : CreateFailed(r, m)
     \/ TestMailSent(r)
     \/ \E m \in MailErrors : TestMailFailed(r, m)
     \/ \E id \in RecordIds : TestRecordCreated(r, id)
     \/ \E m \in CreateErrors : TestCreateFailed(r, m)

\* What the sinks' transports do to request r: each pending call may settle
\* either way (or never).
Settles(r) ==
  \/ MailSent(r)
  \/ \E m \in MailErrors : MailFailed(r, m)
  \/ \E id \in RecordIds : RecordCreated(r, id)
  \/ \E m \in CreateErrors : CreateFailed(r, m)
  \/ TestMailSent(r)
  \/ \E m \in MailErrors : TestMailFailed(r, m)
  \/ \E id \in RecordIds : TestRecordCreated(r, id)
  \/ \E m \in CreateErrors : TestCreateFailed(r, m)

Next ==
  \/ Listen
  \/ \E r \in Requests :
       \/ Deliver(r, CoreInputs)
       \/ TestReceive(r)
       \/ GetLogs(r)
       \/ Settles(r)

Spec == Init /\ [][Next]_vars

\* A single delivery, of an event of any type with a payload of any shape
\* (or with none), or of a body that is no event.
EventBodies ==
  {MalformedBody, NullBody}
    \cup { EventBody(t, o) : t \in FailureTypes \cup OtherTypes,
                             o \in AllPayloads \cup {NoObject} }

EventInputs ==
  { WebhookInput(TRUE, b) : b \in EventBodies }
    \cup { WebhookInput(FALSE, b) : b \in BadlySigned }

EventNext ==
  \/ Listen
  \/ Deliver(1, EventInputs)
  \/ MailSent(1)
  \/ \E m \in MailErrors : MailFailed(1, m)
  \/ \E id \in RecordIds : RecordCreated(1, id)
  \/ \E m \in CreateErrors : CreateFailed(1, m)

\* It starts from the process as loaded.
EventInit == Boot(FALSE, <<>>)

EventSpec == EventInit /\ [][EventNext]_vars

\* Runs of POST /test alone, from the process as loaded.
TestNext ==
  \/ Listen
  \/ \E r \in Requests :
       \/ TestReceive(r)
       \/ TestMailSent(r)
       \/ \E m \in MailErrors : TestMailFailed(r, m)
       \/ \E id \in RecordIds : TestRecordCreated(r, id)
       \/ \E m \in CreateErrors : TestCreateFailed(r, m)

TestSpec == EventInit /\ [][TestNext]_vars

\* The states in which request r waits on a call to a sink's transport.
Pending == {"sendMail", "create", "testMail", "testCreate"}

\* The call request r waits on never returns: its handler is never resumed
\* (no timeout is set on either call), whatever the other requests do.
Hangs(r) ==
  /\ pc[r] \in Pending
  /\ UNCHANGED input
  /\ Step(r, "hung", <<>>, <<>>, response[r], mail[r], fields[r])

\* The deliveries of the runs to completion: one rejected, one not handled,
\* one that goes through both sinks.
FairInputs ==
  { WebhookInput(TRUE, b) :
      b \in {MalformedBody,
             EventBody("customer.created", FullPayload),
             EventBody("charge.failed", FullPayload)} }

FairNext ==
  \/ Listen
  \/ \E r \in Requests :
       \/ Deliver(r, FairInputs)
       \/ TestReceive(r)
       \/ Settles(r)
       \/ Hangs(r)

\* Node resumes a handler once the promise it awaits has settled: a pending
\* call that is not one that never returns is eventually answered either way.
FairSpec ==
  /\ EventInit
  /\ [][FairNext]_vars
  /\ \A r \in Requests : WF_vars(Settles(r))

\* ------------------------------------------------------------ the claims
\* Vocabulary of the properties below.
Has(seq, x) == \E i \in DOMAIN seq : seq[i] = x
Count(seq, x) == Cardinality({ i \in DOMAIN seq : seq[i] = x })
\* Every x of seq has a y somewhere before it.
Precedes(seq, y, x) ==
  \A j \in DOMAIN seq : seq[j] = x => \E i \in 1..(j - 1) : seq[i] = y

IsWebhook(r) == input[r].route = "webhook"
\* Request r carried an event and passed verification.
IsVerifiedEvent(r) ==
  /\ IsWebhook(r)
  /\ input[r].body.kind = "event"
  /\ secret => input[r].sigOk
TypeOf(r) == input[r].body.type
HasObject(r) == input[r].body.object # NoObject
ObjectOf(r) == input[r].body.object

\* C1: when the datastore create of a webhook request raises an error, the
\* request is answered 400 with that error's message, and the email send of
\* the same request was attempted, and had settled, before the record sink
\* was entered.
C1_RecordErrorIs400AfterEmail ==
  \A r \in Requests :
    (IsWebhook(r) /\ Has(calls[r], "create:error")) =>
      /\ pc[r] = "done"
      /\ \E m \in CreateErrors :
           /\ Has(reqLog[r], Err("Error creating Airtable record: " \o m))
           /\ response[r] = [status |-> 400, text |-> "Webhook error: " \o m]
      /\ Count(calls[r], "sendMail:call") = 1
      /\ Precedes(calls[r], "sendMail:call", "create:call")
      /\ Precedes(calls[r], "email:return", "record:enter")
      /\ Has(calls[r], "sendMail:ok") \/ Has(calls[r], "sendMail:error")

C1_Witness ==
  \E r \in Requests :
    /\ IsVerifiedEvent(r) /\ TypeOf(r) \in FailureTypes
    /\ Has(calls[r], "sendMail:ok") /\ Has(calls[r], "create:error")
    /\ response[r].status = 400

\* C2: when the email send of a webhook request raises an error, the error is
\* logged at error level and does not stop the request: the record sink is
\* entered afterwards, and when its create succeeds the request is answered
\* 200 {received: true} with the record's fields handed to the datastore.
C2_EmailErrorSwallowed ==
  \A r \in Requests :
    (IsWebhook(r) /\ Has(calls[r], "sendMail:error")) =>
      /\ \E m \in MailErrors :
           Has(reqLog[r], [level |-> "error",
                           message |-> "Error sending Gmail alert: " \o m])
      /\ Has(calls[r], "record:enter")
      /\ Precedes(calls[r], "sendMail:error", "record:enter")
      /\ Has(calls[r], "create:ok") =>
           /\ pc[r] = "done"
           /\ response[r] = [status |-> 200, json |-> [received |-> TRUE]]
           /\ fields[r] # NoValue

C2_Witness ==
  \E r \in Requests :
    /\ IsVerifiedEvent(r) /\ TypeOf(r) \in FailureTypes
    /\ Has(calls[r], "sendMail:error") /\ Has(calls[r], "create:ok")
    /\ response[r].status = 200

\* The sink calls of a request that ran through both sinks, mail and create
\* called: email entered first, the record sink entered right after the
\* email sink returned.
InSinkOrder(seq) ==
  /\ Len(seq) >= 1 => seq[1] = "email:enter"
  /\ Count(seq, "email:enter") = 1
  /\ Precedes(seq, "email:return", "record:enter")
  /\ Precedes(seq, "email:return", "create:call")
  /\ Precedes(seq, "email:enter", "sendMail:call")

\* C3 as stated: every verified event of one of the four failure types has
\* both sinks invoked, email then record, and every other type has none and
\* is answered 200 {received: true}.
C3_Original ==
  \A r \in Requests :
    (IsVerifiedEvent(r) /\ pc[r] # "idle") =>
      IF TypeOf(r) \in FailureTypes
      THEN /\ InSinkOrder(calls[r])
           /\ Has(calls[r], "email:enter")
           /\ pc[r] = "done" => Has(calls[r], "record:enter")
      ELSE /\ calls[r] = <<>>
           /\ response[r] = [status |-> 200, json |-> [received |-> TRUE]]

\* C3 amended: the same for every verified event of a failure type that
\* carries a data.object; one that carries none is answered 400 with no sink
\* invoked.
C3_SinksInOrderWhenObject ==
  \A r \in Requests :
    (IsVerifiedEvent(r) /\ pc[r] # "idle") =>
      IF TypeOf(r) \in FailureTypes /\ HasObject(r)
      THEN /\ InSinkOrder(calls[r])
           /\ Has(calls[r], "email:enter")
           /\ pc[r] \in {"create", "done"} <=> Has(calls[r], "record:enter")
      ELSE IF TypeOf(r) \in FailureTypes
      THEN /\ calls[r] = <<>>
           /\ pc[r] = "done"
           /\ response[r].status = 400
      ELSE /\ calls[r] = <<>>
           /\ pc[r] = "done"
           /\ response[r] = [status |-> 200, json |-> [received |-> TRUE]]

C3_Witness ==
  \E r \in Requests :
    /\ IsVerifiedEvent(r) /\ TypeOf(r) = "payment_method.attach_failed"
    /\ calls[r] = <<"email:enter", "sendMail:call", "sendMail:ok", "email:return",
                    "record:enter", "create:call", "create:ok", "record:return">>
    /\ response[r].status = 200

\* Verification of request r fails: the signature does not match the
\* configured secret, or no secret is configured and the body is not JSON.
VerificationFails(r) ==
  /\ IsWebhook(r)
  /\ \/ secret /\ ~input[r].sigOk
     \/ ~secret /\ input[r].body.kind = "malformed"

\* C4: a webhook request whose verification fails is answered 400 at once
\* and makes no sink call.
C4_RejectedWithoutProcessing ==
  \A r \in Requests :
    VerificationFails(r) =>
      /\ pc[r] = "done"
      /\ response[r].status = 400
      /\ calls[r] = <<>>
      /\ mail[r] = NoValue /\ fields[r] = NoValue

C4_Witness ==
  \E r \in Requests :
    /\ VerificationFails(r) /\ secret
    /\ input[r].body = EventBody("charge.failed", FullPayload)
    /\ response[r].status = 400

\* The entries passed to log() in the step at hand: those of start-up, or
\* those of the one request that ran.
NewEntries ==
  IF listening' # listening THEN StartupEntries
  ELSE IF \E r \in Requests : reqLog'[r] # reqLog[r]
  THEN LET r == CHOOSE q \in Requests : reqLog'[q] # reqLog[q]
       IN SubSeq(reqLog'[r], Len(reqLog[r]) + 1, Len(reqLog'[r]))
  ELSE <<>>

\* after is what before and the entries appended to it leave when only the
\* newest MaxLogs are kept, in their order.
KeepsNewest(old, new, after) ==
  LET all == old \o new
      drop == IF Len(all) > MaxLogs THEN Len(all) - MaxLogs ELSE 0
  IN /\ after = [i \in 1..(Len(all) - drop) |-> all[i + drop]]
     /\ (Len(old) = MaxLogs /\ Len(new) = 1) => after = Tail(old) \o new

\* C5: the buffer never holds more than 100 entries between handler runs, and
\* every run leaves in it the newest 100 of what it held plus what the run
\* appended, in insertion order with the new entries last: a single append to
\* a full buffer drops exactly the oldest entry.
C5_BufferBoundedFifo ==
  /\ [](Len(logs) <= 100)
  /\ [][KeepsNewest(logs, NewEntries, logs')]_vars

C5_Witness ==
  /\ Len(logs) = 100
  /\ logs[1] # StartupEntries[1]
  /\ \E r \in Requests :
       /\ pc[r] = "done"
       /\ reqLog[r] # <<>>
       /\ logs[100] = reqLog[r][Len(reqLog[r])]

\* C6: no webhook request enters either sink, or calls sendMail or create,
\* more than once, whatever the calls answer; when both calls succeed the
\* request made exactly one of each and is answered 200 {received: true}.
C6_EachSinkAtMostOnce ==
  \A r \in Requests :
    IsWebhook(r) =>
      /\ \A c \in {"email:enter", "sendMail:call", "record:enter", "create:call"} :
           Count(calls[r], c) <= 1
      /\ (Has(calls[r], "sendMail:ok") /\ Has(calls[r], "create:ok")) =>
           /\ Count(calls[r], "sendMail:call") = 1
           /\ Count(calls[r], "create:call") = 1
           /\ pc[r] = "done"
           /\ response[r] = [status |-> 200, json |-> [received |-> TRUE]]

C6_Witness ==
  \E r \in Requests :
    /\ IsVerifiedEvent(r) /\ TypeOf(r) = "charge.failed"
    /\ ObjectOf(r) = FullPayload
    /\ Has(calls[r], "sendMail:ok") /\ Has(calls[r], "create:ok")
    /\ pc[r] = "done"

\* Request r carried a verified event of a type the switch does not handle,
\* and has been answered.
UnhandledDone(r) ==
  /\ IsVerifiedEvent(r)
  /\ TypeOf(r) \notin FailureTypes
  /\ pc[r] = "done"

\* C7 as stated: such a request appends exactly one entry, of level info.
C7_Original ==
  \A r \in Requests :
    UnhandledDone(r) =>
      /\ Len(reqLog[r]) = 1
      /\ \A i \in DOMAIN reqLog[r] : reqLog[r][i].level = "info"
      /\ response[r] = [status |-> 200, json |-> [received |-> TRUE]]
      /\ calls[r] = <<>>

\* C7 amended: such a request appends exactly two entries, both of level
\* info ("Received Stripe webhook: <type>", then "Unhandled event type:
\* <type>"), which end the buffer; it is answered 200 {received: true} and
\* makes no sink call.
C7_TwoInfoEntries ==
  \A r \in Requests :
    UnhandledDone(r) =>
      /\ reqLog[r] =
           <<[level |-> "info", message |-> "Received Stripe webhook: " \o TypeOf(r)],
             [level |-> "info", message |-> "Unhandled event type: " \o TypeOf(r)]>>
      /\ Len(logs) >= 2
      /\ <<logs[Len(logs) - 1], logs[Len(logs)]>> = reqLog[r]
      /\ response[r] = [status |-> 200, json |-> [received |-> TRUE]]
      /\ calls[r] = <<>>

C7_Witness ==
  \E r \in Requests :
    /\ UnhandledDone(r)
    /\ TypeOf(r) = "customer.created"
    /\ Len(reqLog[r]) = 2

\* Request r carried a verified event of a failure type with a payload, and
\* its handler has run.
FailureReceived(r) ==
  /\ IsVerifiedEvent(r)
  /\ TypeOf(r) \in FailureTypes
  /\ HasObject(r)
  /\ pc[r] # "idle"

\* Every optional field absent from payload p reads "N/A" in the mail m and
\* in the record fields f.
AbsentIsNA(p, m, f) ==
  /\ "customer_email" \notin DOMAIN p =>
       m.html.customer = "N/A" /\ f.CustomerEmail = "N/A"
  /\ "customer" \notin DOMAIN p =>
       m.html.customerId = "N/A" /\ f.CustomerID = "N/A"
  /\ "failure_code" \notin DOMAIN p =>
       m.html.failureCode = "N/A" /\ f.FailureCode = "N/A"
  /\ "failure_message" \notin DOMAIN p =>
       m.html.failureMessage = "N/A" /\ f.FailureMessage = "N/A"
  /\ "description" \notin DOMAIN p =>
       m.html.description = "N/A" /\ f.Description = "N/A"
  /\ "source" \notin DOMAIN p => f.Source = "N/A"

\* C8: for every payload of a failure event, with currency, amount or any
\* optional field absent, the mail is derived without an error, and so are the
\* record's fields once the record sink is entered, every absent optional
\* field reading "N/A" in both.
C8_NormalizationTotal ==
  \A r \in Requests :
    FailureReceived(r) =>
      /\ mail[r] # NoValue
      /\ \A i \in DOMAIN reqLog[r] :
           reqLog[r][i].message # "Error sending Gmail alert: " \o UpperError
      /\ Has(calls[r], "record:enter") =>
           /\ fields[r] # NoValue
           /\ ~Has(calls[r], "record:throw") \/ Has(calls[r], "create:error")
           /\ AbsentIsNA(ObjectOf(r), mail[r], fields[r])

\* C9 as stated: the record's Amount is the payload's minor-unit integer
\* unchanged (4999 is stored as 4999).
C9_Original ==
  \A r \in Requests :
    (FailureReceived(r) /\ fields[r] # NoValue /\ "amount" \in DOMAIN ObjectOf(r)) =>
      fields[r].Amount = [units |-> ObjectOf(r).amount, hundredths |-> 0]

\* C9 amended: the record's Amount is the payload's minor-unit amount divided
\* by 100, as a number (4999 is stored as 49.99): the same quotient the mail
\* shows formatted to two decimals.
C9_AmountInMajorUnits ==
  \A r \in Requests :
    (FailureReceived(r) /\ fields[r] # NoValue /\ "amount" \in DOMAIN ObjectOf(r)) =>
      /\ fields[r].Amount.units * 100 + fields[r].Amount.hundredths = ObjectOf(r).amount
      /\ fields[r].Amount.hundredths \in 0..99
      /\ ObjectOf(r).amount = 4999 => fields[r].Amount = [units |-> 49, hundredths |-> 99]
      /\ mail[r].subject = "Payment Failed: $" \o ToFixed2(fields[r].Amount)
      /\ mail[r].html.amount = "$" \o ToFixed2(fields[r].Amount)
      /\ ObjectOf(r).amount = 4999 => mail[r].html.amount = "$49.99"

C9_Witness ==
  \E r \in Requests :
    /\ FailureReceived(r)
    /\ Has(calls[r], "create:ok")
    /\ ObjectOf(r).amount = 4999
    /\ fields[r].Amount = [units |-> 49, hundredths |-> 99]

\* The payment ids of the deliveries, and the deliveries of one id.
PaymentIds == {"ch_1", "ch_2"}
DeliveriesOf(id) == { r \in Requests : FailureReceived(r) /\ ObjectOf(r).id = id }
\* How many times the requests of rs made call c, in all.
Total(rs, c) ==
  Cardinality(UNION { { <<r, i>> : i \in { j \in DOMAIN calls[r] : calls[r][j] = c } } :
                      r \in rs })

\* C10: the k deliveries of one payment id enter the email sink k times, each
\* one that has come out of it enters the record sink, so that once all are
\* answered the record sink was entered k times too; each delivery whose mail
\* could be built calls sendMail, however many were sent for that id before.
C10_NoDeduplication ==
  \A id \in PaymentIds :
    LET ds == DeliveriesOf(id) IN
      /\ Total(ds, "email:enter") = Cardinality(ds)
      /\ Total(ds, "record:enter")
           = Cardinality({ r \in ds : Has(calls[r], "email:return") })
      /\ (\A r \in ds : pc[r] = "done") => Total(ds, "record:enter") = Cardinality(ds)
      /\ Total(ds, "sendMail:call")
           = Cardinality({ r \in ds : "currency" \in DOMAIN ObjectOf(r) })

\* A delivery answered 400 on a create error, a second delivery of the same id
\* whose mail was sent as well: two mails, at most one record.
C10_Witness ==
  \E id \in PaymentIds :
    \E r, q \in DeliveriesOf(id) :
      /\ r < q
      /\ Has(calls[r], "sendMail:ok") /\ Has(calls[r], "create:error")
      /\ response[r].status = 400
      /\ Has(calls[q], "sendMail:ok")
      /\ pc[q] = "done"
      /\ Total(DeliveriesOf(id), "sendMail:ok") = 2
      /\ Total(DeliveriesOf(id), "sendMail:ok") > Total(DeliveriesOf(id), "create:ok")

\* The last entry of a sequence of log entries, none if it is empty.
LastOf(seq) == IF seq = <<>> THEN NoValue ELSE seq[Len(seq)]

\* Request r is answered in the step at hand.
Answered(r) == response[r] = NoResponse /\ response'[r] # NoResponse

\* The email sink of webhook request r came back without a mail sent: its
\* error was swallowed.
EmailSwallowed(r) ==
  /\ IsWebhook(r)
  /\ Has(calls[r], "email:return")
  /\ ~Has(calls[r], "sendMail:ok")

\* The step that answers request r with 400 or 500 leaves, as the newest entry
\* of the buffer and of the request's own entries, an error entry with the
\* message of the response.
ErrorLoggedAtResponse(r) ==
  /\ (Answered(r) /\ response'[r].status = 400) =>
       /\ LastOf(logs') = [level |-> "error", message |-> response'[r].text]
       /\ LastOf(reqLog'[r]) = LastOf(logs')
       /\ \E m \in MailErrors \cup CreateErrors
                     \cup {UpperError, NoObjectError, NullEventError,
                           JsonError, SignatureError} :
            response'[r].text = "Webhook error: " \o m
  /\ (Answered(r) /\ response'[r].status = 500) =>
       /\ LastOf(logs') = [level |-> "error",
                           message |-> "Manual test failed: "
                                         \o response'[r].json.error]
       /\ LastOf(reqLog'[r]) = LastOf(logs')
       /\ response'[r].json.error \in MailErrors \cup CreateErrors

\* The swallowed error of the email sink is among the request's entries, at
\* error level, and ahead of the entry that precedes a 400 response.
SwallowedIsLogged(r) ==
  EmailSwallowed(r) =>
    \E i \in DOMAIN reqLog[r] :
      /\ \E m \in MailErrors \cup {UpperError} :
           reqLog[r][i] = [level |-> "error",
                           message |-> "Error sending Gmail alert: " \o m]
      /\ response[r] # NoResponse => i < Len(reqLog[r])

\* C11: every webhook request answered 400 and every test request answered
\* 500 has, in the step that answers it, appended an error entry carrying the
\* error's message as the newest entry of the buffer; an email error that is
\* swallowed is in the log at error level from the step that swallows it, so
\* before the request's response.
C11_ErrorsLoggedBeforeResponse ==
  /\ [](\A r \in Requests : SwallowedIsLogged(r))
  /\ [][\A r \in Requests : ErrorLoggedAtResponse(r)]_vars

\* A delivery whose mail failed and whose create failed, answered 400, and a
\* test run answered 500.
C11_Witness ==
  \E r, q \in Requests :
    /\ EmailSwallowed(r) /\ Has(calls[r], "sendMail:error")
    /\ response[r].status = 400
    /\ input[q].route = "test"
    /\ response[q].status = 500

IsTest(r) == input[r].route = "test"

\* C12: a test request is answered 200 with success true exactly when its
\* sendMail call and its create call both succeeded; when either fails it is
\* answered 500 with success false and that call's error message, and is never
\* answered 200.
C12_TestPassesIffBothSucceed ==
  \A r \in Requests :
    IsTest(r) =>
      /\ response[r].status \in {0, 200, 500}
      /\ response[r].status = 200 <=>
           (Has(calls[r], "sendMail:ok") /\ Has(calls[r], "create:ok"))
      /\ response[r].status = 200 =>
           /\ response[r].json.success = TRUE
           /\ ~Has(calls[r], "sendMail:error") /\ ~Has(calls[r], "create:error")
      /\ Has(calls[r], "sendMail:error") =>
           \E m \in MailErrors :
             response[r] = [status |-> 500,
                            json |-> [success |-> FALSE, error |-> m]]
      /\ Has(calls[r], "create:error") =>
           \E m \in CreateErrors :
             response[r] = [status |-> 500,
                            json |-> [success |-> FALSE, error |-> m]]
      /\ response[r].status = 500 <=>
           (Has(calls[r], "sendMail:error") \/ Has(calls[r], "create:error"))

\* One test run that passed, one whose create failed after its mail was sent.
C12_Witness ==
  \E r, q \in Requests :
    /\ IsTest(r) /\ response[r].status = 200
    /\ IsTest(q) /\ Has(calls[q], "sendMail:ok") /\ Has(calls[q], "create:error")
    /\ response[q].status = 500

Min(a, b) == IF a < b THEN a ELSE b

\* How many entries were ever passed to log(): those the buffer started with
\* (a buffer of WarmLogs entries or more is the warm start), those of
\* start-up, those of the requests.
Appended ==
  (IF Len(logs) >= WarmLogs THEN Len(StartupEntries) + WarmLogs
   ELSE IF listening THEN Len(StartupEntries) ELSE 0)
  + Cardinality(UNION { {r} \X DOMAIN reqLog[r] : r \in Requests })

\* reply holds the last min(50, size) entries of buf, oldest first, and the
\* size of buf as its total.
RecentReturned(buf, reply) ==
  LET n == Min(50, Len(buf)) IN
    /\ Len(reply.logs) = n
    /\ \A i \in 1..n : reply.logs[i] = buf[Len(buf) - n + i]
    /\ reply.total = Len(buf)
    /\ reply.total <= 100

\* C13: the answer of GET /logs holds the last min(50, size) entries of the
\* buffer in insertion order, newest last, with total the buffer's current
\* length; that length is min(100, number of entries ever appended), so it
\* stays at 100 once more than 100 were appended.
C13_LogsReturnsRecent ==
  /\ [](Len(logs) = Min(100, Appended))
  /\ [][\A r \in Requests :
          (Answered(r) /\ input'[r].route = "logs") =>
            /\ response'[r].status = 200
            /\ RecentReturned(logs, response'[r].json)
            /\ logs' = logs]_vars

\* GET /logs answered after more than 100 appends, the last of them by the
\* request before it: total is 100 and the 50 entries end with that entry.
C13_Witness ==
  \E r, q \in Requests :
    /\ q < r
    /\ input[r].route = "logs" /\ pc[r] = "done"
    /\ Appended > 100
    /\ response[r].json.total = 100
    /\ Len(response[r].json.logs) = 50
    /\ IsVerifiedEvent(q) /\ pc[q] = "done" /\ Len(reqLog[q]) = 5
    /\ response[r].json.logs[50] = reqLog[q][5]
    /\ SubSeq(response[r].json.logs, 46, 50) = reqLog[q]

\* The calls a test run makes on the transports, and the entries it logs.
TransportCalls ==
  {"sendMail:call", "sendMail:ok", "sendMail:error",
   "create:call", "create:ok", "create:error"}
TestEntries ==
  { [level |-> "info", message |-> "Manual test run initiated"],
    [level |-> "info", message |-> "Manual test completed successfully"] }
    \cup { [level |-> "error", message |-> "Manual test failed: " \o m] :
             m \in MailErrors \cup CreateErrors }

\* A test run goes through neither the verification nor the switch nor the
\* sink functions of the webhook: it calls the transports itself, with its own
\* mail and record, and logs only its own entries, with or without a secret.
BypassesPipeline(r) ==
  /\ \A i \in DOMAIN calls[r] : calls[r][i] \in TransportCalls
  /\ \A i \in DOMAIN reqLog[r] : reqLog[r][i] \in TestEntries
  /\ mail[r] = TestMail
  /\ fields[r] \in {NoValue, TestFields}
  /\ response[r].status # 400

\* C14 as stated: every finished test run called both sendMail and create.
C14_Original ==
  \A r \in Requests :
    (IsTest(r) /\ pc[r] = "done") =>
      /\ Has(calls[r], "sendMail:call")
      /\ Has(calls[r], "create:call")
      /\ BypassesPipeline(r)

\* C14 amended: every test run calls sendMail first and, exactly when that
\* call succeeded, create after it; a run whose sendMail failed ends without
\* calling create.  No run passes through the verification, the switch or the
\* sink functions.
C14_TestCallsMailThenCreate ==
  \A r \in Requests :
    IsTest(r) =>
      /\ BypassesPipeline(r)
      /\ calls[r][1] = "sendMail:call"
      /\ Count(calls[r], "sendMail:call") = 1
      /\ Count(calls[r], "create:call") <= 1
      /\ Has(calls[r], "create:call") <=> Has(calls[r], "sendMail:ok")
      /\ Precedes(calls[r], "sendMail:ok", "create:call")
      /\ Has(calls[r], "sendMail:error") =>
           pc[r] = "done" /\ ~Has(calls[r], "create:call")
      /\ (pc[r] = "done" /\ ~Has(calls[r], "sendMail:error")) =>
           Has(calls[r], "create:ok") \/ Has(calls[r], "create:error")

\* With a secret configured: one run that made both calls, one that ended on
\* its mail's failure.
C14_Witness ==
  \E r, q \in Requests :
    /\ secret
    /\ IsTest(r) /\ calls[r] = <<"sendMail:call", "sendMail:ok", "create:call", "create:ok">>
    /\ IsTest(q) /\ calls[q] = <<"sendMail:call", "sendMail:error">>
    /\ pc[r] = "done" /\ pc[q] = "done"

\* What was in the buffer, or went into it, before any request: the warm
\* buffer, the entries of start-up, or nothing.
WarmHistory == History(WarmLogs)
BaseEntries ==
  IF Len(logs) >= WarmLogs THEN WarmHistory
  ELSE IF listening THEN StartupEntries ELSE <<>>

\* The number of entries the requests have passed to log().
ByRequests == Cardinality(UNION { {r} \X DOMAIN reqLog[r] : r \in Requests })

\* seq, from position i on, is an interleaving of what is left of the
\* sequences parts[r] after their first used[r] entries, each in its order.
RECURSIVE IsMerge(_, _, _, _)
IsMerge(seq, i, parts, used) ==
  IF i > Len(seq)
  THEN \A r \in DOMAIN parts : used[r] = Len(parts[r])
  ELSE \E r \in DOMAIN parts :
         /\ used[r] < Len(parts[r])
         /\ parts[r][used[r] + 1] = seq[i]
         /\ IsMerge(seq, i + 1, parts, [used EXCEPT ![r] = @ + 1])

\* The buffer is the newest MaxLogs entries of: the base entries, then every
\* entry of every request, those of one request in the order it logged them.
NothingLostButOldest ==
  LET k == ByRequests
      kept == Len(logs) - k
  IN /\ kept >= 0
     /\ Len(logs) = Min(MaxLogs, Len(BaseEntries) + k)
     /\ \A i \in 1..kept : logs[i] = BaseEntries[Len(BaseEntries) - kept + i]
     /\ IsMerge(SubSeq(logs, kept + 1, Len(logs)), 1, reqLog,
                [r \in Requests |-> 0])

\* C15: with requests interleaving at their sendMail and create calls, the
\* buffer never holds more than 100 entries in a state a request can observe
\* (nor does an answer of GET /logs report more), and it holds every entry
\* ever appended but the oldest ones evicted, the entries of each request in
\* that request's program order.
C15_AppendAtomic ==
  [](/\ Len(logs) <= 100
     /\ \A r \in Requests :
          (input[r].route = "logs" /\ pc[r] = "done") =>
            response[r].json.total <= 100 /\ Len(response[r].json.logs) <= 50
     /\ NothingLostButOldest)

\* A delivery and a test run in flight together, their entries interleaved at
\* the end of a full buffer that has evicted its oldest entries.
C15_Witness ==
  \E r, q \in Requests :
    /\ IsVerifiedEvent(r) /\ IsTest(q)
    /\ pc[r] = "done" /\ pc[q] = "done"
    /\ Len(reqLog[r]) = 5 /\ Len(reqLog[q]) = 2
    /\ Len(logs) = 100 /\ Len(BaseEntries) + ByRequests > 100
    /\ SliceLast(logs, 7) =
         <<reqLog[r][1], reqLog[r][2], reqLog[q][1], reqLog[r][3],
           reqLog[q][2], reqLog[r][4], reqLog[r][5]>>

\* The status request r gets from its own input and the answers to its own
\* calls alone, 0 while it has none.
StatusAlone(r) ==
  IF pc[r] # "done" THEN 0
  ELSE IF IsTest(r)
  THEN IF Has(calls[r], "create:ok") THEN 200 ELSE 500
  ELSE IF input[r].route = "logs" THEN 200
  ELSE IF VerificationFails(r) \/ input[r].body.kind # "event" THEN 400
  ELSE IF TypeOf(r) \notin FailureTypes THEN 200
  ELSE IF HasObject(r) /\ Has(calls[r], "create:ok") THEN 200 ELSE 400

\* C16: a request whose sink call never returns is never answered, and it
\* holds back no other request: every other request waiting on a call of its
\* own gets that call's answer and then its response (unless its own call
\* never returns either), with the status its own input and its own calls'
\* answers give it.
C16_HangBlocksOnlyItself ==
  /\ [](\A r \in Requests :
          /\ pc[r] = "hung" => response[r] = NoResponse
          /\ response[r].status = StatusAlone(r))
  /\ \A r \in Requests :
       (pc[r] \in Pending) ~> (pc[r] = "hung" \/ response[r] # NoResponse)
  /\ [][\A r \in Requests :
          pc[r] = "hung" => (pc'[r] = "hung" /\ response'[r] = NoResponse)]_vars

\* One request hung on its create call, another one that arrived after it and
\* went through both sinks to its 200.
C16_Witness ==
  \E h, r \in Requests :
    /\ h < r
    /\ pc[h] = "hung" /\ Has(calls[h], "create:call") /\ response[h] = NoResponse
    /\ IsVerifiedEvent(r) /\ Has(calls[r], "create:ok")
    /\ response[r].status = 200

\* The answers the transports gave to the calls of a request, in order.
IsAnswer(c) == c \in {"sendMail:ok", "sendMail:error", "create:ok", "create:error"}
Answers(seq) == SelectSeq(seq, IsAnswer)

\* Requests r and q carried the same body and stand at the same point, having
\* been given the same answers by the sinks.
SameBodySameAnswers(r, q) ==
  /\ IsWebhook(r) /\ IsWebhook(q)
  /\ input[r].body = input[q].body
  /\ pc[r] = pc[q]
  /\ Answers(calls[r]) = Answers(calls[q])

\* Request r was dispatched: the handler got an event out of verification.
ReceivedEntries ==
  { [level |-> "info", message |-> "Received Stripe webhook: " \o t] :
      t \in FailureTypes \cup OtherTypes }
Dispatched(r) == \E i \in DOMAIN reqLog[r] : reqLog[r][i] \in ReceivedEntries

\* C17: with no secret configured, two webhook requests with the same body
\* have the same response, the same sink calls and the same log entries
\* whatever their signatures (given the same answers from the sinks); with a
\* secret configured, a request whose signature does not verify is rejected
\* for its signature before its body is parsed, and only a request whose
\* signature verified is dispatched.
C17_OutcomeDependsOnBodyOnly ==
  /\ ~secret =>
       \A r, q \in Requests :
         (r < q /\ SameBodySameAnswers(r, q)) =>
           /\ response[r] = response[q]
           /\ calls[r] = calls[q]
           /\ reqLog[r] = reqLog[q]
           /\ mail[r] = mail[q] /\ fields[r] = fields[q]
  /\ secret =>
       \A r \in Requests :
         /\ (IsWebhook(r) /\ ~input[r].sigOk) =>
              /\ response[r] = [status |-> 400,
                                text |-> "Webhook error: " \o SignatureError]
              /\ reqLog[r] = <<[level |-> "error",
                               message |-> "Webhook error: " \o SignatureError]>>
              /\ calls[r] = <<>>
         /\ Dispatched(r) => (input[r].sigOk /\ input[r].body.kind = "event")
  /\ \A r \in Requests :
       (IsWebhook(r) /\ Dispatched(r)) =>
         /\ input[r].body.kind = "event"
         /\ reqLog[r][1].message = "Received Stripe webhook: " \o TypeOf(r)

\* No secret: the same charge.failed event delivered with a signature that
\* would verify and with one that would not, both through both sinks to 200.
C17_Witness ==
  \E r, q \in Requests :
    /\ ~secret
    /\ SameBodySameAnswers(r, q)
    /\ input[r].sigOk /\ ~input[q].sigOk
    /\ input[r].body = EventBody("charge.failed", FullPayload)
    /\ Has(calls[q], "create:ok")
    /\ response[q] = Received

\* Request r carried a verified event of a failure type and was answered 200.
FailureAcknowledged(r) ==
  /\ IsVerifiedEvent(r)
  /\ TypeOf(r) \in FailureTypes
  /\ response[r].status = 200

\* C18: a verified event of a failure type is answered 200 {received: true}
\* only when the create call of that request was made once and returned
\* successfully, after which 'Successfully processed failed payment' was
\* logged as the request's last entry; the email's sendMail may have failed.
C18_AckOnlyAfterRecord ==
  \A r \in Requests :
    FailureAcknowledged(r) =>
      /\ response[r] = [status |-> 200, json |-> [received |-> TRUE]]
      /\ HasObject(r)
      /\ Count(calls[r], "create:call") = 1
      /\ Has(calls[r], "create:ok")
      /\ ~Has(calls[r], "create:error") /\ ~Has(calls[r], "record:throw")
      /\ Precedes(calls[r], "create:ok", "record:return")
      /\ Has(calls[r], "record:return")
      /\ fields[r] # NoValue
      /\ LastOf(reqLog[r]) =
           [level |-> "info",
            message |-> "Successfully processed failed payment: "
                          \o IdText(ObjectOf(r))]
      /\ Has(calls[r], "sendMail:ok") \/ Has(calls[r], "sendMail:error")

\* An invoice.payment_failed event acknowledged with its record created and
\* its mail failed.
C18_Witness ==
  \E r \in Requests :
    /\ FailureAcknowledged(r)
    /\ TypeOf(r) = "invoice.payment_failed"
    /\ Has(calls[r], "sendMail:error")
    /\ Has(calls[r], "create:ok")

\* The messages an error of a webhook request can carry.
ErrorMessages ==
  MailErrors \cup CreateErrors
    \cup {UpperError, NoObjectError, NullEventError, JsonError, SignatureError}

\* The responses POST /webhook gives.
WebhookResponses ==
  {[status |-> 200, json |-> [received |-> TRUE]]}
    \cup { [status |-> 400, text |-> "Webhook error: " \o m] : m \in ErrorMessages }

\* C19: every webhook request whose sink calls all return is eventually given
\* a response; a webhook request has no response while it waits on a call,
\* has one of 200 {received: true} and 400 'Webhook error: <message>' once
\* its handler has finished, and a response given is never followed by
\* another.
C19_ExactlyOneResponse ==
  /\ [](\A r \in Requests :
          IsWebhook(r) =>
            /\ pc[r] \in Pending \cup {"hung"} <=> response[r] = NoResponse
            /\ pc[r] = "done" <=> response[r] \in WebhookResponses)
  /\ [][\A r \in Requests :
          response[r] # NoResponse => response'[r] = response[r]]_vars
  /\ \A r \in Requests :
       (IsWebhook(r) /\ pc[r] # "hung") ~> (pc[r] = "hung" \/ pc[r] = "done")

\* Two deliveries whose calls all returned: one answered 400 after its mail
\* and its create both failed, one answered 200.
C19_Witness ==
  \E r, q \in Requests :
    /\ IsWebhook(r) /\ Has(calls[r], "sendMail:error") /\ Has(calls[r], "create:error")
    /\ response[r].status = 400
    /\ IsWebhook(q) /\ Has(calls[q], "create:ok")
    /\ response[q] = Received

\* How many times call c was started by the requests 1..n, in all.
RECURSIVE Started(_, _)
Started(n, c) == IF n = 0 THEN 0 ELSE Count(calls[n], c) + Started(n - 1, c)

\* C20: in every state, whatever the interleaving of webhook and test
\* requests, the create calls started so far are no more than the sendMail
\* calls started so far, because every request that has called create has
\* called sendMail before, and had its answer, in the same request.
C20_CreateOnlyAfterSendMail ==
  [](/\ Started(NumReq, "create:call") <= Started(NumReq, "sendMail:call")
     /\ \A r \in Requests :
          /\ Count(calls[r], "create:call") <= Count(calls[r], "sendMail:call")
          /\ Precedes(calls[r], "sendMail:call", "create:call")
          /\ Has(calls[r], "create:call") =>
               \E i \in DOMAIN calls[r] :
                 /\ calls[r][i] \in {"sendMail:ok", "sendMail:error"}
                 /\ \A j \in DOMAIN calls[r] :
                      calls[r][j] = "create:call" => i < j)

\* A delivery and a test run that both called create: two create calls in
\* all, after two sendMail calls.
C20_Witness ==
  \E r, q \in Requests :
    /\ IsVerifiedEvent(r) /\ Has(calls[r], "create:call")
    /\ IsTest(q) /\ Has(calls[q], "create:call")
    /\ Started(NumReq, "create:call") = 2
    /\ Started(NumReq, "sendMail:call") = 2

====
